---- MODULE Spec2Model ----
(***************************************************************************)
(* Model of multi_api_mocker: the MockAPIResponse definition class         *)
(* (definitions.py), the ResponseKwargs / MockConfiguration records        *)
(* (models.py) and the group_by_url transformation (http_utils.py).        *)
(*                                                                         *)
(* Python values are tagged records so that values of different Python     *)
(* types can be compared.  A dict that Python shares by reference (the     *)
(* class-level default_json of a subtype) lives in the variable heap and   *)
(* is passed around as a reference; everything else is a plain value.      *)
(***************************************************************************)
EXTENDS Integers, Sequences, FiniteSets, TLC

VARIABLES heap, last, param, result, pc, backend, mock_set, calls

vars == <<heap, last, param, result, pc, backend, mock_set, calls>>

(***************************************************************************)
(* Bounds                                                                  *)
(***************************************************************************)
\* Largest number of items (definitions, other objects, nested lists) the
\* parametrized input of one test holds.
MaxSize == 4

(***************************************************************************)
(* Python values                                                           *)
(***************************************************************************)
None == [tag |-> "None"]

StrV(s) == [tag |-> "str", s |-> s]

IntV(n) == [tag |-> "int", n |-> n]

DictV(f) == [tag |-> "dict", items |-> f]

ExcType(name) == [tag |-> "exc_type", name |-> name]

ExcInstance(name) == [tag |-> "exc_instance", name |-> name]

EmptyItems == [k \in {} |-> "x"]

BoolV(b) == [tag |-> "bool", b |-> b]

\* A compiled regular expression (re.Pattern).
PatternV(s) == [tag |-> "pattern", s |-> s]

\* A class that is not an exception class.
ClassV(name) == [tag |-> "class", name |-> name]

\* Python truth value, as used by `or`, `if x` and `not x`.
Truthy(v) ==
    CASE v.tag = "None" -> FALSE
      [] v.tag = "str" -> v.s # ""
      [] v.tag = "int" -> v.n # 0
      [] v.tag = "bool" -> v.b
      [] v.tag = "dict" -> DOMAIN v.items # {}
      [] OTHER -> TRUE

\* Python `a or b`.
Or(a, b) == IF Truthy(a) THEN a ELSE b

\* dict.update on the items of a dict: overlay keys win, other keys stay.
Update(base, overlay) ==
    [k \in (DOMAIN base) \cup (DOMAIN overlay) |->
        IF k \in DOMAIN overlay THEN overlay[k] ELSE base[k]]

\* str.upper on the method strings the model uses.
Upper(s) ==
    CASE s = "post" -> "POST"
      [] s = "get" -> "GET"
      [] OTHER -> s

(***************************************************************************)
(* The subtypes of tests/test_pytest/mocks.py and the base class: their    *)
(* class-level attributes after attribute lookup along the bases.          *)
(* default_json names the dict object the class attribute refers to (the   *)
(* object is created by the class body that declares it), or is None.      *)
(***************************************************************************)
ClassNames == {"MockAPIResponse", "Commit", "Push", "PushTimeoutRequestsError",
               "SecondPush"}

JsonKeys == {"id", "message"}

\* The values a caller writes into a dict it was handed.
CallerVals == {"partial_id"}

\* The classes with an endpoint_name of their own or inherited: ForcePush of
\* mocks.py and a subtype of it with an empty body.
NamedClassNames == {"ForcePush", "ForcePushSubclass"}

\* The base of a class statement.
Base(c) ==
    CASE c = "SecondPush" -> "Push"
      [] c = "ForcePushSubclass" -> "ForcePush"
      [] OTHER -> "MockAPIResponse"

\* The attributes a class body sets.
ClassBody(c) ==
    CASE c = "MockAPIResponse" ->
            [url |-> None, method |-> None, endpoint_name |-> None,
             default_status_code |-> None, default_json |-> None,
             default_text |-> None, default_exc |-> None]
      [] c = "Commit" ->
            [url |-> StrV("/commit"), method |-> StrV("GET"),
             default_status_code |-> IntV(200), default_json |-> StrV("Commit")]
      [] c = "Push" ->
            [url |-> StrV("/push"), method |-> StrV("POST"),
             default_status_code |-> IntV(200), default_json |-> StrV("Push")]
      [] c = "PushTimeoutRequestsError" ->
            [url |-> StrV("/push"), method |-> StrV("POST"),
             default_exc |-> ExcType("Timeout")]
      [] c = "SecondPush" ->
            [default_json |-> StrV("SecondPush")]
      [] c = "ForcePush" ->
            [url |-> StrV("/force-push"), method |-> StrV("POST"),
             endpoint_name |-> StrV("ForcePush"),
             default_status_code |-> IntV(200),
             default_json |-> StrV("ForcePush")]
      [] c = "ForcePushSubclass" -> [i \in {} |-> None]

\* Attribute lookup: the body of the class, else of its bases in turn.
RECURSIVE Lookup(_, _)
Lookup(c, attr) ==
    IF attr \in DOMAIN ClassBody(c)
    THEN ClassBody(c)[attr]
    ELSE Lookup(Base(c), attr)

ClassAttrs(c) ==
    [attr \in {"url", "method", "endpoint_name", "default_status_code",
               "default_json", "default_text", "default_exc"} |->
        Lookup(c, attr)]

\* The dict objects created by the class bodies, with their declared items
\* (the bodies of mocks.py shortened to the keys id and message).
DictObjects == {"Commit", "Push", "SecondPush", "ForcePush"}

DeclaredHeap ==
    [o \in DictObjects |->
        CASE o = "Commit" -> ("id" :> "commit102") @@ ("message" :> "commit")
          [] o = "Push" -> ("id" :> "push102")
          [] o = "SecondPush" -> ("id" :> "push103")
          [] o = "ForcePush" -> ("id" :> "push102")]

(***************************************************************************)
(* References: what a Python expression evaluates to when the value may be *)
(* a shared dict object.                                                   *)
(***************************************************************************)
RefObj(o) == [ref |-> "obj", id |-> o]

RefVal(v) == [ref |-> "val", v |-> v]

\* The value a reference denotes in heap h.
Deref(r, h) == IF r.ref = "obj" THEN DictV(h[r.id]) ELSE r.v

(***************************************************************************)
(* MockAPIResponse.__init__                                                *)
(***************************************************************************)
NoArgs ==
    [url |-> None, method |-> None, status_code |-> None, json |-> None,
     partial_json |-> None, text |-> None, endpoint_name |-> None,
     exc |-> None]

\* __init__ that names an instance after the class that declares its url.
MockAPIResponse_init_declaring_class(cls, kw) ==
    [cls |-> cls,
     url |-> Or(kw.url, ClassAttrs(cls).url),
     method |-> Or(kw.method, ClassAttrs(cls).method),
     endpoint_name |->
        Or(Or(kw.endpoint_name, ClassAttrs(cls).endpoint_name),
           StrV(IF "url" \in DOMAIN ClassBody(cls) THEN cls ELSE Base(cls))),
     _status_code |-> kw.status_code,
     _partial_json |-> kw.partial_json,
     _json |-> kw.json,
     _text |-> kw.text,
     _exc |-> kw.exc]

MockAPIResponse_init(cls, kw) ==
    [cls |-> cls,
     url |-> Or(kw.url, ClassAttrs(cls).url),
     method |-> Or(kw.method, ClassAttrs(cls).method),
     endpoint_name |->
        Or(Or(kw.endpoint_name, ClassAttrs(cls).endpoint_name), StrV(cls)),
     _status_code |-> kw.status_code,
     _partial_json |-> kw.partial_json,
     _json |-> kw.json,
     _text |-> kw.text,
     _exc |-> kw.exc]

(***************************************************************************)
(* The properties of an instance.  json may write to the heap and may      *)
(* raise, so it yields a record [err, ret, heap]; ret is a reference.      *)
(***************************************************************************)
status_code(d) == Or(d._status_code, ClassAttrs(d.cls).default_status_code)

exc(d) == Or(d._exc, ClassAttrs(d.cls).default_exc)

\* self.default_json: the class attribute, unchanged and uncopied.
_default_json(d) ==
    IF ClassAttrs(d.cls).default_json = None
    THEN RefVal(None)
    ELSE RefObj(ClassAttrs(d.cls).default_json.s)

\* self.default_text
_default_text(d) == ClassAttrs(d.cls).default_text

text(d) == IF d._text # None THEN d._text ELSE _default_text(d)

json(d, h) ==
    IF d._json # None
    THEN [err |-> "ok", ret |-> RefVal(d._json), heap |-> h]
    ELSE IF Truthy(d._partial_json)
    THEN LET default == _default_json(d) IN
         IF default.ref = "val"
         THEN \* None.update(...)
              [err |-> "AttributeError", ret |-> RefVal(None), heap |-> h]
         ELSE [err |-> "ok", ret |-> default,
               heap |-> [h EXCEPT ![default.id] =
                            Update(h[default.id], d._partial_json.items)]]
    ELSE [err |-> "ok", ret |-> _default_json(d), heap |-> h]

(***************************************************************************)
(* The instances the checks draw from.                                     *)
(***************************************************************************)
JsonArgs == {None, DictV(EmptyItems), DictV("id" :> "partial_id")}

PartialArgs ==
    {None, DictV(EmptyItems), DictV("id" :> "partial_id"),
     DictV("message" :> "partial_msg")}

Instances ==
    {MockAPIResponse_init(c, [NoArgs EXCEPT !.json = j, !.partial_json = p]) :
        c \in ClassNames, j \in JsonArgs, p \in PartialArgs}

(***************************************************************************)
(* State machine of a test body that reads json and changes what it got.   *)
(***************************************************************************)
NoRead == [op |-> "none"]

Init ==
    /\ heap = DeclaredHeap
    /\ last = NoRead
    /\ param = <<>>
    /\ result = [err |-> "none"]
    /\ backend = <<>>
    /\ mock_set = None
    /\ calls = <<>>
    /\ pc = "test"

\* value = d.json
ReadJson(d) ==
    LET r == json(d, heap) IN
    /\ heap' = r.heap
    /\ last' = [op |-> "json", d |-> d, err |-> r.err, ret |-> r.ret,
                value |-> Deref(r.ret, r.heap)]
    /\ UNCHANGED <<backend, mock_set, calls, param, result, pc>>

\* value[k] = v, done by the caller on the dict the last read returned when
\* that dict is a class-level default (the case of the repository's
\* test_partial_json: expected_json["id"] = "partial_id").
MutateReturned(k, v) ==
    /\ last.op = "json"
    /\ last.err = "ok"
    /\ last.ret.ref = "obj"
    /\ heap' = [heap EXCEPT ![last.ret.id] = Update(@, k :> v)]
    /\ last' = [op |-> "setitem", d |-> last.d, key |-> k]
    /\ UNCHANGED <<backend, mock_set, calls, param, result, pc>>

Next ==
    \/ \E d \in Instances : ReadJson(d)
    \/ \E k \in JsonKeys, v \in CallerVals : MutateReturned(k, v)

Spec == Init /\ [][Next]_vars

(***************************************************************************)
(* models.py: ResponseKwargs and MockConfiguration                         *)
(***************************************************************************)
\* ResponseKwargs(text=..., status_code=..., json=..., exc=...).  The json
\* field holds whatever the json property returned, so it is a reference.
ResponseKwargs(t, s, j, e) == [text |-> t, status_code |-> s, json |-> j, exc |-> e]

\* dataclasses.asdict: the fields as a dict, every value deep-copied, so the
\* json field becomes the items its dict holds when asdict runs.  Exceptions
\* are compared by type and arguments, which a deep copy keeps.
asdict(kw, h) ==
    [text |-> kw.text, status_code |-> kw.status_code,
     json |-> Deref(kw.json, h), exc |-> kw.exc]

\* to_dict that keeps the keys whose value is None.
to_dict_keeping_none(kw, h) == asdict(kw, h)

\* ResponseKwargs.to_dict: asdict without the keys whose value is None.
to_dict(kw, h) ==
    LET a == asdict(kw, h) IN
    [k \in {f \in DOMAIN a : a[f] # None} |-> a[k]]

MockConfiguration(u, m, r) == [url |-> u, method |-> m, responses |-> r]

(***************************************************************************)
(* http_utils.py: group_by_url                                             *)
(*                                                                         *)
(* An element of the input is a definition [t |-> "def", d |-> instance],  *)
(* a list [t |-> "list", items |-> elements] or any other object           *)
(* [t |-> "other", type |-> name of its type].  grouped_mocks, a           *)
(* defaultdict(list), is a sequence of entries [key, kwargs] in insertion  *)
(* order.  The loops carry st = [err, type, grouped, heap].                *)
(***************************************************************************)
DefElem(d) == [t |-> "def", d |-> d]

ListElem(items) == [t |-> "list", items |-> items]

OtherElem(type) == [t |-> "other", type |-> type]

\* type(x).__name__ of an element that is not a definition.
TypeName(x) == IF x.t = "list" THEN "list" ELSE x.type

\* grouped_mocks[key] = [kw]
GroupOverwrite(grouped, key, kw) ==
    IF \E i \in 1..Len(grouped) : grouped[i].key = key
    THEN [i \in 1..Len(grouped) |->
            IF grouped[i].key = key
            THEN [grouped[i] EXCEPT !.kwargs = <<kw>>]
            ELSE grouped[i]]
    ELSE Append(grouped, [key |-> key, kwargs |-> <<kw>>])

\* grouped_mocks[key].insert(0, kw)
GroupPrepend(grouped, key, kw) ==
    IF \E i \in 1..Len(grouped) : grouped[i].key = key
    THEN [i \in 1..Len(grouped) |->
            IF grouped[i].key = key
            THEN [grouped[i] EXCEPT !.kwargs = <<kw>> \o @]
            ELSE grouped[i]]
    ELSE Append(grouped, [key |-> key, kwargs |-> <<kw>>])

\* grouped_mocks[key].append(kw)
GroupAppend(grouped, key, kw) ==
    IF \E i \in 1..Len(grouped) : grouped[i].key = key
    THEN [i \in 1..Len(grouped) |->
            IF grouped[i].key = key
            THEN [grouped[i] EXCEPT !.kwargs = Append(@, kw)]
            ELSE grouped[i]]
    ELSE Append(grouped, [key |-> key, kwargs |-> <<kw>>])

\* add_mock_to_group that passes status_code also when an exception is set.
add_mock_to_group_keeping_status(st, mock) ==
    LET j == IF Truthy(exc(mock))
             THEN [err |-> "ok", ret |-> RefVal(None), heap |-> st.heap]
             ELSE json(mock, st.heap)
    IN IF j.err # "ok"
       THEN [st EXCEPT !.err = j.err, !.type = "NoneType"]
       ELSE [st EXCEPT
               !.heap = j.heap,
               !.grouped =
                  GroupAppend(st.grouped, <<mock.url, mock.method>>,
                              ResponseKwargs(
                                IF Truthy(exc(mock)) THEN None ELSE text(mock),
                                status_code(mock), j.ret, exc(mock)))]

add_mock_to_group(st, mock) ==
    IF Truthy(exc(mock))
    THEN [st EXCEPT !.grouped =
            GroupAppend(st.grouped, <<mock.url, mock.method>>,
                        ResponseKwargs(None, None, RefVal(None), exc(mock)))]
    ELSE LET j == json(mock, st.heap) IN
         IF j.err # "ok"
         THEN [st EXCEPT !.err = j.err, !.type = "NoneType"]
         ELSE [st EXCEPT
                 !.heap = j.heap,
                 !.grouped =
                    GroupAppend(st.grouped, <<mock.url, mock.method>>,
                                ResponseKwargs(text(mock), status_code(mock),
                                               j.ret, None))]

\* The nested loop leaving after its first element.
nested_loop_first_only(items, st) ==
    IF items = <<>> \/ st.err # "ok"
    THEN st
    ELSE LET x == Head(items) IN
         IF x.t = "def"
         THEN add_mock_to_group(st, x.d)
         ELSE [st EXCEPT !.err = "ValueError", !.type = TypeName(x)]

\* for nested_mock_definition in mock_definition: ...
RECURSIVE nested_loop(_, _)
nested_loop(items, st) ==
    IF items = <<>> \/ st.err # "ok"
    THEN st
    ELSE LET x == Head(items) IN
         nested_loop(Tail(items),
                     IF x.t = "def"
                     THEN add_mock_to_group(st, x.d)
                     ELSE [st EXCEPT !.err = "ValueError",
                                     !.type = TypeName(x)])

\* for mock_definition in api_mocks: ...
RECURSIVE grouping_loop(_, _)
grouping_loop(api_mocks, st) ==
    IF api_mocks = <<>> \/ st.err # "ok"
    THEN st
    ELSE LET x == Head(api_mocks) IN
         grouping_loop(Tail(api_mocks),
                       CASE x.t = "list" -> nested_loop(x.items, st)
                         [] x.t = "def" -> add_mock_to_group(st, x.d)
                         [] OTHER -> [st EXCEPT !.err = "ValueError",
                                                !.type = TypeName(x)])

\* [kwargs.to_dict() for kwargs in kwargs_list]
responses_of(kwargs_list, h) ==
    [i \in 1..Len(kwargs_list) |-> to_dict(kwargs_list[i], h)]

\* The output loop that passes a method that is None on as it is.
RECURSIVE output_loop_tolerant(_, _, _)
output_loop_tolerant(grouped, h, output) ==
    IF grouped = <<>>
    THEN [err |-> "ok", type |-> "", output |-> output, heap |-> h]
    ELSE output_loop_tolerant(Tail(grouped), h,
            Append(output,
                   MockConfiguration(
                        Head(grouped).key[1],
                        IF Head(grouped).key[2].tag = "str"
                        THEN StrV(Upper(Head(grouped).key[2].s))
                        ELSE Head(grouped).key[2],
                        responses_of(Head(grouped).kwargs, h))))

\* The output loop with output.insert(0, config).
RECURSIVE output_loop_prepending(_, _, _)
output_loop_prepending(grouped, h, output) ==
    IF grouped = <<>>
    THEN [err |-> "ok", type |-> "", output |-> output, heap |-> h]
    ELSE LET g == Head(grouped)
             url == g.key[1]
             method == g.key[2]
         IN IF method.tag # "str"
            THEN [err |-> "AttributeError", type |-> "NoneType",
                  output |-> <<>>, heap |-> h]
            ELSE output_loop_prepending(Tail(grouped), h,
                    <<MockConfiguration(url, StrV(Upper(method.s)),
                                        responses_of(g.kwargs, h))>>
                        \o output)

\* for (url, method), kwargs_list in grouped_mocks.items(): ... output.append
RECURSIVE output_loop(_, _, _)
output_loop(grouped, h, output) ==
    IF grouped = <<>>
    THEN [err |-> "ok", type |-> "", output |-> output, heap |-> h]
    ELSE LET g == Head(grouped)
             url == g.key[1]
             method == g.key[2]
         IN IF method.tag # "str"
            THEN \* None.upper()
                 [err |-> "AttributeError", type |-> "NoneType",
                  output |-> <<>>, heap |-> h]
            ELSE output_loop(Tail(grouped), h,
                    Append(output,
                           MockConfiguration(url, StrV(Upper(method.s)),
                                             responses_of(g.kwargs, h))))

\* The outcome of group_by_url(api_mocks) in heap h: err is "ok" and output
\* the returned list, or err is the exception raised (type names the
\* offending type) and nothing is returned; heap is the heap afterwards.
group_by_url(api_mocks, h) ==
    LET st == grouping_loop(api_mocks,
                            [err |-> "ok", type |-> "", grouped |-> <<>>,
                             heap |-> h])
    IN IF st.err # "ok"
       THEN [err |-> st.err, type |-> st.type, output |-> <<>>,
             heap |-> st.heap]
       ELSE output_loop(st.grouped, st.heap, <<>>)

(***************************************************************************)
(* State machine of one test setup: the parametrized input is written,     *)
(* then group_by_url runs on it.                                           *)
(***************************************************************************)
\* The definitions a parametrization is built from.
Catalog ==
    {MockAPIResponse_init("Push", NoArgs),
     MockAPIResponse_init("Push",
        [NoArgs EXCEPT !.partial_json = DictV("message" :> "partial_msg")]),
     MockAPIResponse_init("Push",
        [NoArgs EXCEPT !.method = StrV("post"), !.text = StrV("pushed"),
                       !.json = DictV("id" :> "partial_id")]),
     MockAPIResponse_init("Commit", [NoArgs EXCEPT !.status_code = IntV(404)]),
     MockAPIResponse_init("PushTimeoutRequestsError",
        [NoArgs EXCEPT !.status_code = IntV(400), !.text = StrV("pushed"),
                       !.json = DictV("id" :> "partial_id")]),
     MockAPIResponse_init("MockAPIResponse",
        [NoArgs EXCEPT !.url = StrV("/commit"), !.method = StrV("GET"),
                       !.exc = ExcInstance("Timeout"),
                       !.partial_json = DictV("id" :> "partial_id")]),
     MockAPIResponse_init("MockAPIResponse",
        [NoArgs EXCEPT !.url = StrV("/push"), !.method = StrV("GET"),
                       !.partial_json = DictV("id" :> "partial_id")]),
     MockAPIResponse_init("MockAPIResponse",
        [NoArgs EXCEPT !.url = StrV("/commit")])}

\* What a nested list may hold: definitions, other objects, and lists.
NestedElems ==
    {DefElem(d) : d \in Catalog}
        \cup {OtherElem("str")}
        \cup {ListElem(<<>>), ListElem(<<DefElem(MockAPIResponse_init("Push", NoArgs))>>)}

RECURSIVE Size(_)
Size(elems) ==
    IF elems = <<>>
    THEN 0
    ELSE 1 + (IF Head(elems).t = "list" THEN Len(Head(elems).items) ELSE 0)
           + Size(Tail(elems))

InitGroup ==
    /\ heap = DeclaredHeap
    /\ last = NoRead
    /\ param = <<>>
    /\ result = [err |-> "none"]
    /\ backend = <<>>
    /\ mock_set = None
    /\ calls = <<>>
    /\ pc = "build"

\* [..., Definition(...)]
AppendDefinition(d) ==
    /\ pc = "build"
    /\ Size(param) < MaxSize
    /\ param' = Append(param, DefElem(d))
    /\ UNCHANGED <<backend, mock_set, calls, heap, last, result, pc>>

\* [..., "not a definition"]
AppendOther(type) ==
    /\ pc = "build"
    /\ Size(param) < MaxSize
    /\ param' = Append(param, OtherElem(type))
    /\ UNCHANGED <<backend, mock_set, calls, heap, last, result, pc>>

\* [..., []]
AppendList ==
    /\ pc = "build"
    /\ Size(param) < MaxSize
    /\ param' = Append(param, ListElem(<<>>))
    /\ UNCHANGED <<backend, mock_set, calls, heap, last, result, pc>>

\* [..., [..., x]]
AppendNested(x) ==
    /\ pc = "build"
    /\ Size(param) < MaxSize
    /\ param # <<>>
    /\ param[Len(param)].t = "list"
    /\ param' = [param EXCEPT ![Len(param)].items = Append(@, x)]
    /\ UNCHANGED <<backend, mock_set, calls, heap, last, result, pc>>

\* api_mocks_configurations = group_by_url(request.param)
GroupByUrl ==
    /\ pc = "build"
    /\ result' = group_by_url(param, heap)
    /\ heap' = result'.heap
    /\ pc' = "done"
    /\ UNCHANGED <<backend, mock_set, calls, last, param>>

NextGroup ==
    \/ \E d \in Catalog : AppendDefinition(d)
    \/ \E type \in {"str"} : AppendOther(type)
    \/ AppendList
    \/ \E x \in NestedElems : AppendNested(x)
    \/ GroupByUrl

SpecGroup == InitGroup /\ [][NextGroup]_vars

(***************************************************************************)
(* definitions.py: validate_class_attributes, run by __init_subclass__     *)
(* when a subtype is declared.  attrs holds what getattr(cls, attr, None)  *)
(* yields for each class-level attribute.  The outcome is [err |-> "ok"]   *)
(* or the TypeError with the parts its message is formatted from.          *)
(***************************************************************************)
\* type(value).__name__
TypeOf(v) ==
    CASE v.tag = "None" -> "NoneType"
      [] v.tag = "pattern" -> "Pattern"
      [] v.tag = "exc_type" -> "type"
      [] v.tag = "class" -> "type"
      [] v.tag = "exc_instance" -> v.name
      [] OTHER -> v.tag

\* isinstance(value, types); bool is a subclass of int.
IsInstance(v, types) ==
    \/ \E i \in 1..Len(types) : types[i] = TypeOf(v)
    \/ v.tag = "bool" /\ \E i \in 1..Len(types) : types[i] = "int"

\* expected_class_attribute_types, in the order of the dict.
CheckedAttributes ==
    <<"url", "method", "endpoint_name", "default_status_code", "default_text">>

expected_class_attribute_types(attr) ==
    CASE attr = "url" -> <<"str", "Pattern">>
      [] attr = "method" -> <<"str">>
      [] attr = "endpoint_name" -> <<"str">>
      [] attr = "default_status_code" -> <<"int", "NoneType">>
      [] attr = "default_text" -> <<"str", "NoneType">>

\* The names joined into the message: the types but NoneType, then "None".
expected_type_names(types) ==
    SelectSeq(types, LAMBDA t : t # "NoneType")
        \o (IF \E i \in 1..Len(types) : types[i] = "NoneType"
            THEN <<"None">> ELSE <<>>)

TypeError(attr, cls, expected, value) ==
    [err |-> "TypeError", attr |-> attr, cls |-> cls, expected |-> expected,
     got |-> TypeOf(value), value |-> value]

\* The check of one attribute that reports None as well.
attribute_violation_none_too(attr, value) ==
    ~IsInstance(value, SelectSeq(expected_class_attribute_types(attr),
                                 LAMBDA t : t # "NoneType"))

\* if not isinstance(value, expected_types) and value is not None
attribute_violation(attr, value) ==
    ~IsInstance(value, expected_class_attribute_types(attr)) /\ value # None

\* default_exc accepted whenever it is a class.
default_exc_violation_any_class(value) ==
    value # None
        /\ ~(value.tag \in {"exc_type", "class"} \/ value.tag = "exc_instance")

\* value is not None and not (inspect.isclass(value) and
\* issubclass(value, Exception) or isinstance(value, Exception))
default_exc_violation(value) ==
    value # None
        /\ ~((value.tag \in {"exc_type", "class"} /\ value.tag = "exc_type")
             \/ value.tag = "exc_instance")

\* The validation that checks default_exc before the other attributes.
RECURSIVE validation_loop_exc_first(_, _, _)
validation_loop_exc_first(attributes, cls, attrs) ==
    IF default_exc_violation(attrs.default_exc)
    THEN TypeError("default_exc", cls,
                   <<"subclass or instance of Exception", "None">>,
                   attrs.default_exc)
    ELSE IF attributes = <<>>
    THEN [err |-> "ok"]
    ELSE LET attr == Head(attributes) IN
         IF attribute_violation(attr, attrs[attr])
         THEN TypeError(attr, cls,
                        expected_type_names(
                            expected_class_attribute_types(attr)),
                        attrs[attr])
         ELSE validation_loop_exc_first(Tail(attributes), cls, attrs)

\* for attr, expected_types in expected_class_attribute_types.items(): ...
\* followed by the separate validation of default_exc.
RECURSIVE validation_loop(_, _, _)
validation_loop(attributes, cls, attrs) ==
    IF attributes = <<>>
    THEN IF default_exc_violation(attrs.default_exc)
         THEN TypeError("default_exc", cls,
                        <<"subclass or instance of Exception", "None">>,
                        attrs.default_exc)
         ELSE [err |-> "ok"]
    ELSE LET attr == Head(attributes) IN
         IF attribute_violation(attr, attrs[attr])
         THEN TypeError(attr, cls,
                        expected_type_names(
                            expected_class_attribute_types(attr)),
                        attrs[attr])
         ELSE validation_loop(Tail(attributes), cls, attrs)

validate_class_attributes(cls, attrs) ==
    validation_loop(CheckedAttributes, cls, attrs)

(***************************************************************************)
(* State machine of declarations: a class statement with a choice of       *)
(* class-level attributes.                                                 *)
(***************************************************************************)
\* The values a class body may give to each attribute.
AttributeValues ==
    [url |-> {None, StrV("/push"), PatternV("/push"), IntV(1)},
     method |-> {None, StrV("GET"), IntV(200)},
     endpoint_name |-> {None, StrV("ForcePush"), BoolV(FALSE)},
     default_status_code |-> {None, IntV(200), BoolV(TRUE), StrV("NotAnInt")},
     default_json |-> {None, DictV("id" :> "push102"), StrV("NotADict")},
     default_text |-> {None, StrV("pushed"), IntV(123)},
     default_exc |-> {None, ExcType("Timeout"), ExcInstance("Timeout"),
                      StrV("NotATypeOrNone"), ClassV("dict"), IntV(1)}]

InitClass ==
    /\ heap = DeclaredHeap
    /\ last = NoRead
    /\ param = <<>>
    /\ result = [err |-> "none"]
    /\ backend = <<>>
    /\ mock_set = None
    /\ calls = <<>>
    /\ pc = "class"

\* class <cls>(MockAPIResponse): <attrs>
DeclareSubclass(cls, attrs) ==
    /\ pc = "class"
    /\ last' = [op |-> "declare", cls |-> cls, attrs |-> attrs,
                outcome |-> validate_class_attributes(cls, attrs)]
    /\ pc' = "declared"
    /\ UNCHANGED <<backend, mock_set, calls, heap, param, result>>

\* The arguments instances are constructed with.
StatusCodeArgs == {None, IntV(0), IntV(404), StrV("x")}

EndpointNameArgs == {None, StrV("Custom")}

MethodArgs == {None, IntV(200)}

\* A call of the class that checks the resolved attributes as a declaration
\* does.
MockAPIResponse_call_validating(cls, kw) ==
    [err |-> validate_class_attributes(cls,
                [ClassAttrs(cls) EXCEPT
                    !.method = Or(kw.method, @),
                    !.default_status_code = Or(kw.status_code, @)]).err,
     d |-> MockAPIResponse_init(cls, kw)]

\* <cls>(**kw): __init__ assigns the attributes and raises nothing.
MockAPIResponse_call(cls, kw) ==
    [err |-> "ok", d |-> MockAPIResponse_init(cls, kw)]

\* mock = <cls>(method=..., status_code=..., endpoint_name=...)
Construct(cls, kw) ==
    /\ pc \in {"class", "constructed"}
    /\ last' = [op |-> "init", cls |-> cls, kw |-> kw,
                err |-> MockAPIResponse_call(cls, kw).err,
                d |-> MockAPIResponse_call(cls, kw).d]
    /\ pc' = "constructed"
    /\ UNCHANGED <<backend, mock_set, calls, heap, param, result>>

\* mock.status_code
ReadStatusCode ==
    /\ pc = "constructed"
    /\ last' = [op |-> "status_code", cls |-> last.cls, kw |-> last.kw,
                d |-> last.d, value |-> status_code(last.d)]
    /\ pc' = "read"
    /\ UNCHANGED <<backend, mock_set, calls, heap, param, result>>

NextClass ==
    \/ \E cls \in ClassNames \cup NamedClassNames, m \in MethodArgs,
          sc \in StatusCodeArgs, n \in EndpointNameArgs :
            Construct(cls, [NoArgs EXCEPT !.method = m, !.status_code = sc,
                                          !.endpoint_name = n])
    \/ ReadStatusCode
    \/ \E u \in AttributeValues.url, m \in AttributeValues.method,
          n \in AttributeValues.endpoint_name,
          sc \in AttributeValues.default_status_code,
          j \in AttributeValues.default_json,
          t \in AttributeValues.default_text,
          e \in AttributeValues.default_exc :
            DeclareSubclass("MockAPIResponseSubclass",
                [url |-> u, method |-> m, endpoint_name |-> n,
                 default_status_code |-> sc, default_json |-> j,
                 default_text |-> t, default_exc |-> e])

SpecClass == InitClass /\ [][NextClass]_vars

(***************************************************************************)
(* contrib/pytest_plugin.py: the requests fixture, and the RequestsMockSet  *)
(* it yields (http_utils.py).                                              *)
(*                                                                         *)
(* A python dict is a sequence of entries [key, value] in insertion order. *)
(* backend is the list of matchers registered with requests_mock, a handle *)
(* is an index into it; mock_set is the yielded RequestsMockSet, None      *)
(* before the fixture has run or when it raised; calls is the history of   *)
(* the requests the test has sent.                                         *)
(***************************************************************************)
MaxDefs == 3

MaxCalls == 3

\* The matcher object requests_mock returns for the i-th registration.
Matcher(i) == [tag |-> "matcher", id |-> i]

HasKey(dict, k) == \E i \in 1..Len(dict) : dict[i].key = k

\* dict[k], defined when HasKey(dict, k).
GetItem(dict, k) == dict[CHOOSE i \in 1..Len(dict) : dict[i].key = k].value

\* dict[k] = v that keeps the value already stored under k.
DictSetItem_keep_first(dict, k, v) ==
    IF HasKey(dict, k)
    THEN dict
    ELSE Append(dict, [key |-> k, value |-> v])

\* dict[k] = v: a key already present keeps its place and takes the value.
DictSetItem(dict, k, v) ==
    IF HasKey(dict, k)
    THEN [i \in 1..Len(dict) |->
            IF dict[i].key = k THEN [dict[i] EXCEPT !.value = v] ELSE dict[i]]
    ELSE Append(dict, [key |-> k, value |-> v])

\* The registry in which the first definition of a name stays.
RECURSIVE response_registry_first_wins(_, _)
response_registry_first_wins(api_responses, registry) ==
    IF api_responses = <<>>
    THEN [err |-> "ok", registry |-> registry]
    ELSE LET response == Head(api_responses) IN
         IF response.t # "def"
         THEN [err |-> "AttributeError", registry |-> <<>>]
         ELSE response_registry_first_wins(Tail(api_responses),
                IF HasKey(registry, response.d.endpoint_name)
                THEN registry
                ELSE Append(registry, [key |-> response.d.endpoint_name,
                                       value |-> response.d]))

\* {response.endpoint_name: response for response in api_responses}: err is
\* "AttributeError" when an element is a list, which has no endpoint_name.
RECURSIVE response_registry(_, _)
response_registry(api_responses, registry) ==
    IF api_responses = <<>>
    THEN [err |-> "ok", registry |-> registry]
    ELSE LET response == Head(api_responses) IN
         IF response.t # "def"
         THEN [err |-> "AttributeError", registry |-> <<>>]
         ELSE response_registry(Tail(api_responses),
                DictSetItem(registry, response.d.endpoint_name, response.d))

\* RequestsMockSet(api_responses, requests_mock, matchers)
RequestsMockSet_init(api_responses, matchers) ==
    LET r == response_registry(api_responses, <<>>) IN
    IF r.err # "ok"
    THEN [err |-> r.err, set |-> None]
    ELSE [err |-> "ok",
          set |-> [_response_registry |-> r.registry, matchers |-> matchers]]

\* __getitem__ that answers None for a name the registry does not hold.
RequestsMockSet_getitem_or_none(set, endpoint_name) ==
    IF HasKey(set._response_registry, endpoint_name)
    THEN [err |-> "ok", value |-> GetItem(set._response_registry, endpoint_name)]
    ELSE [err |-> "ok", value |-> None]

\* self._response_registry[endpoint_name]
RequestsMockSet_getitem(set, endpoint_name) ==
    IF HasKey(set._response_registry, endpoint_name)
    THEN [err |-> "ok", value |-> GetItem(set._response_registry, endpoint_name)]
    ELSE [err |-> "KeyError", value |-> None]

\* iter(self._response_registry.values())
RequestsMockSet_iter(set) ==
    [i \in 1..Len(set._response_registry) |-> set._response_registry[i].value]

\* len(self._response_registry)
RequestsMockSet_len(set) == Len(set._response_registry)

\* `x in mock_set`: the class defines no __contains__, so python walks
\* __iter__ and compares x with each value it yields.
RequestsMockSet_contains(set, x) ==
    LET values == RequestsMockSet_iter(set) IN
    \E i \in 1..Len(values) : values[i] = x

\* self.matchers.get(endpoint_name)
get_matcher(set, endpoint_name) ==
    IF HasKey(set.matchers, endpoint_name)
    THEN GetItem(set.matchers, endpoint_name)
    ELSE None

\* requests_mock.register_uri(method, url, responses): the backend with the
\* new matcher, whose handle is its index.
register_uri(matchers, method, url, responses) ==
    Append(matchers, [method |-> method, url |-> url, responses |-> responses,
                      call_count |-> 0])

\* The matchers of the backend that match a request.
Matching(matchers, method, url) ==
    {i \in 1..Len(matchers) :
        matchers[i].method = method /\ matchers[i].url = url}

\* The handle of the matcher that serves a request: the one registered last.
Serving(matchers, method, url) ==
    CHOOSE i \in Matching(matchers, method, url) :
        \A j \in Matching(matchers, method, url) : j <= i

\* The payload a matcher serves on its next call: its responses in sequence,
\* the last one repeated.
NextResponse(matcher) ==
    matcher.responses[IF matcher.call_count < Len(matcher.responses)
                      THEN matcher.call_count + 1
                      ELSE Len(matcher.responses)]

\* The registration loop that registers the first response of a group only.
RECURSIVE register_loop_single_response(_, _, _)
register_loop_single_response(configurations, registered, matchers) ==
    IF configurations = <<>>
    THEN [backend |-> registered, matchers |-> matchers]
    ELSE LET api_mock == Head(configurations) IN
         register_loop_single_response(Tail(configurations),
            register_uri(registered, api_mock.method, api_mock.url,
                         <<Head(api_mock.responses)>>),
            DictSetItem(matchers, api_mock.url, Matcher(Len(registered) + 1)))

\* for api_mock in api_mocks_configurations:
\*     matcher = requests_mock.register_uri(...); matchers[api_mock.url] = matcher
RECURSIVE register_loop(_, _, _)
register_loop(configurations, registered, matchers) ==
    IF configurations = <<>>
    THEN [backend |-> registered, matchers |-> matchers]
    ELSE LET api_mock == Head(configurations) IN
         register_loop(Tail(configurations),
            register_uri(registered, api_mock.method, api_mock.url,
                         api_mock.responses),
            DictSetItem(matchers, api_mock.url, Matcher(Len(registered) + 1)))

\* yield RequestsMockSet(request.param, requests_mock, matchers), r being the
\* outcome of the registration loop.
yield_mock_set(r, request_param, h) ==
    [err |-> RequestsMockSet_init(request_param, r.matchers).err,
     backend |-> r.backend,
     set |-> RequestsMockSet_init(request_param, r.matchers).set,
     heap |-> h]

\* The body of configure_http_mocks after group_by_url, whose outcome is g.
register_and_yield(g, registered, request_param) ==
    IF g.err # "ok"
    THEN [err |-> g.err, backend |-> registered, set |-> None, heap |-> g.heap]
    ELSE yield_mock_set(register_loop(g.output, registered, <<>>),
                        request_param, g.heap)

\* configure_http_mocks(requests_mock, request) up to its yield: err is "ok"
\* and set the yielded RequestsMockSet, or err is the exception raised.
configure_http_mocks(registered, request_param, h) ==
    register_and_yield(group_by_url(request_param, h), registered,
                       request_param)

\* The definitions the fixture is parametrized with.
FixtureCatalog ==
    {MockAPIResponse_init("Push", NoArgs),
     MockAPIResponse_init("Push",
        [NoArgs EXCEPT !.status_code = IntV(404),
                       !.json = DictV("id" :> "partial_id")]),
     MockAPIResponse_init("SecondPush", NoArgs),
     MockAPIResponse_init("Commit", NoArgs),
     MockAPIResponse_init("MockAPIResponse",
        [NoArgs EXCEPT !.url = StrV("/push"), !.method = StrV("GET"),
                       !.endpoint_name = StrV("Status"),
                       !.text = StrV("pushed")])}

FixtureElems ==
    {DefElem(d) : d \in FixtureCatalog}
        \cup {ListElem(<<DefElem(MockAPIResponse_init("Push", NoArgs)),
                         DefElem(MockAPIResponse_init("SecondPush", NoArgs))>>)}

\* The names and urls a test looks up, and the requests it sends.
LookupKeys ==
    {StrV("Push"), StrV("SecondPush"), StrV("Commit"), StrV("Status"),
     StrV("ForcePush"), StrV("/push"), StrV("/commit")}

RequestTargets ==
    {<<StrV("POST"), StrV("/push")>>, <<StrV("GET"), StrV("/push")>>,
     <<StrV("GET"), StrV("/commit")>>}

InitFixture ==
    /\ heap = DeclaredHeap
    /\ last = NoRead
    /\ param \in UNION {[1..n -> FixtureElems] : n \in 0..MaxDefs}
    /\ result = [err |-> "none"]
    /\ backend = <<>>
    /\ mock_set = None
    /\ calls = <<>>
    /\ pc = "param"

\* The fixture runs up to its yield.
ConfigureHttpMocks ==
    /\ pc = "param"
    /\ \E c \in {configure_http_mocks(backend, param, heap)} :
       /\ backend' = c.backend
       /\ mock_set' = c.set
       /\ heap' = c.heap
       /\ result' = [err |-> c.err]
       /\ pc' = IF c.err = "ok" THEN "test" ELSE "error"
    /\ UNCHANGED <<last, param, calls>>

\* The test body.  The lookups read mock_set only, which no request writes;
\* they are explored before the first request.
LookupByName(name) ==
    /\ pc = "test" /\ calls = <<>>
    /\ LET r == RequestsMockSet_getitem(mock_set, name) IN
       last' = [op |-> "getitem", name |-> name, err |-> r.err,
                value |-> r.value]
    /\ UNCHANGED <<heap, param, result, pc, backend, mock_set, calls>>

Contains(name) ==
    /\ pc = "test" /\ calls = <<>>
    /\ last' = [op |-> "contains", name |-> name,
                value |-> RequestsMockSet_contains(mock_set, name)]
    /\ UNCHANGED <<heap, param, result, pc, backend, mock_set, calls>>

Iterate ==
    /\ pc = "test" /\ calls = <<>>
    /\ last' = [op |-> "iter", value |-> RequestsMockSet_iter(mock_set)]
    /\ UNCHANGED <<heap, param, result, pc, backend, mock_set, calls>>

Length ==
    /\ pc = "test" /\ calls = <<>>
    /\ last' = [op |-> "len", value |-> RequestsMockSet_len(mock_set)]
    /\ UNCHANGED <<heap, param, result, pc, backend, mock_set, calls>>

GetMatcher(name) ==
    /\ pc = "test" /\ calls = <<>>
    /\ last' = [op |-> "get_matcher", name |-> name,
                value |-> get_matcher(mock_set, name)]
    /\ UNCHANGED <<heap, param, result, pc, backend, mock_set, calls>>

\* The test sends a request; the backend serves it from the matcher that
\* matches, or answers that no mock address matches.
Request(method, url) ==
    /\ pc = "test" /\ Len(calls) < MaxCalls
    /\ IF Matching(backend, method, url) = {}
       THEN /\ calls' = Append(calls, [method |-> method, url |-> url,
                                       handle |-> None,
                                       response |-> "NoMockAddress"])
            /\ backend' = backend
       ELSE LET i == Serving(backend, method, url) IN
            /\ calls' = Append(calls, [method |-> method, url |-> url,
                                       handle |-> Matcher(i),
                                       response |-> NextResponse(backend[i])])
            /\ backend' = [backend EXCEPT ![i].call_count = @ + 1]
    /\ last' = [op |-> "request", method |-> method, url |-> url]
    /\ UNCHANGED <<heap, param, result, pc, mock_set>>

NextFixture ==
    \/ ConfigureHttpMocks
    \/ \E name \in LookupKeys : LookupByName(name)
    \/ \E name \in LookupKeys : Contains(name)
    \/ Iterate
    \/ Length
    \/ \E name \in LookupKeys : GetMatcher(name)
    \/ \E t \in RequestTargets : Request(t[1], t[2])

SpecFixture == InitFixture /\ [][NextFixture]_vars

(***************************************************************************)
(* contrib/pytest_plugin.py: the httpx fixture, and the HTTPXMockSet it     *)
(* yields (httpx_utils.py).  backend is the list of the registrations made  *)
(* with httpx_mock, in the order of the calls.  The state of the setup is   *)
(* a record [err, type, registered, heap].                                  *)
(***************************************************************************)
\* httpx_mock.add_exception(url=, method=, exception=)
add_exception(registered, url, method, exception) ==
    Append(registered, [kind |-> "exception", url |-> url, method |-> method,
                        exception |-> exception])

\* httpx_mock.add_response(url=, method=, json=, status_code=)
httpx_add_response(registered, url, method, body, status) ==
    Append(registered, [kind |-> "response", url |-> url, method |-> method,
                        json |-> body, status_code |-> status])

\* The end of add_response for a definition without exception, j being the
\* outcome of the read of mock_definition.json; the body registered is the
\* value of the argument when the call is made.
register_response(st, d, j) ==
    IF j.err # "ok"
    THEN [st EXCEPT !.err = j.err, !.type = "NoneType", !.heap = j.heap]
    ELSE [st EXCEPT !.registered =
                        httpx_add_response(@, d.url, d.method,
                                           Deref(j.ret, j.heap),
                                           status_code(d)),
                    !.heap = j.heap]

\* add_response that registers a response for every definition.
add_response_always_response(st, x) ==
    IF x.t # "def"
    THEN [st EXCEPT !.err = "ValueError", !.type = TypeName(x)]
    ELSE register_response(st, x.d, json(x.d, st.heap))

\* add_response(httpx_mock, mock_definition)
add_response(st, x) ==
    IF x.t # "def"
    THEN [st EXCEPT !.err = "ValueError", !.type = TypeName(x)]
    ELSE IF Truthy(exc(x.d))
    THEN [st EXCEPT !.registered =
                        add_exception(@, x.d.url, x.d.method, exc(x.d))]
    ELSE register_response(st, x.d, json(x.d, st.heap))

\* for nested_mock_definition in mock_definition: add_response(...)
RECURSIVE httpx_nested_loop(_, _)
httpx_nested_loop(items, st) ==
    IF items = <<>> \/ st.err # "ok"
    THEN st
    ELSE httpx_nested_loop(Tail(items), add_response(st, Head(items)))

\* for mock_definition in mock_definitions: ...
RECURSIVE httpx_loop(_, _)
httpx_loop(mock_definitions, st) ==
    IF mock_definitions = <<>> \/ st.err # "ok"
    THEN st
    ELSE httpx_loop(Tail(mock_definitions),
                    IF Head(mock_definitions).t = "list"
                    THEN httpx_nested_loop(Head(mock_definitions).items, st)
                    ELSE add_response(st, Head(mock_definitions)))

\* HTTPXMockSet(api_responses, httpx_mock)
HTTPXMockSet_init(api_responses) ==
    [err |-> response_registry(api_responses, <<>>).err,
     set |-> IF response_registry(api_responses, <<>>).err = "ok"
             THEN [_response_registry |->
                       response_registry(api_responses, <<>>).registry]
             ELSE None]

\* yield HTTPXMockSet(mock_definitions, httpx_mock), st being the outcome of
\* the registration loop.
yield_httpx_set(st, mock_definitions) ==
    IF st.err # "ok"
    THEN [err |-> st.err, type |-> st.type, backend |-> st.registered,
          set |-> None, heap |-> st.heap]
    ELSE [err |-> HTTPXMockSet_init(mock_definitions).err, type |-> "list",
          backend |-> st.registered,
          set |-> HTTPXMockSet_init(mock_definitions).set, heap |-> st.heap]

\* setup_httpx_mocks(httpx_mock, request) up to its yield.
setup_httpx_mocks(registered, request_param, h) ==
    yield_httpx_set(
        httpx_loop(request_param,
                   [err |-> "ok", type |-> "", registered |-> registered,
                    heap |-> h]),
        request_param)

\* The elements the httpx fixture is parametrized with.
HttpxCatalog ==
    {MockAPIResponse_init("Push", NoArgs),
     MockAPIResponse_init("Push",
        [NoArgs EXCEPT !.partial_json = DictV("message" :> "partial_msg")]),
     MockAPIResponse_init("PushTimeoutRequestsError", NoArgs),
     MockAPIResponse_init("Commit",
        [NoArgs EXCEPT !.status_code = IntV(404),
                       !.json = DictV("id" :> "partial_id")]),
     MockAPIResponse_init("MockAPIResponse",
        [NoArgs EXCEPT !.url = StrV("/commit"), !.method = StrV("GET"),
                       !.partial_json = DictV("id" :> "partial_id")])}

HttpxElems ==
    {DefElem(d) : d \in HttpxCatalog}
        \cup {OtherElem("str"),
              ListElem(<<DefElem(MockAPIResponse_init("Push", NoArgs)),
                         DefElem(MockAPIResponse_init(
                                    "PushTimeoutRequestsError", NoArgs))>>)}

InitHttpx ==
    /\ heap = DeclaredHeap
    /\ last = NoRead
    /\ param \in UNION {[1..n -> HttpxElems] : n \in 0..MaxDefs}
    /\ result = [err |-> "none"]
    /\ backend = <<>>
    /\ mock_set = None
    /\ calls = <<>>
    /\ pc = "param"

\* The fixture runs up to its yield.
SetupHttpxMocks ==
    /\ pc = "param"
    /\ \E c \in {setup_httpx_mocks(backend, param, heap)} :
       /\ backend' = c.backend
       /\ mock_set' = c.set
       /\ heap' = c.heap
       /\ result' = [err |-> c.err, type |-> c.type]
       /\ pc' = IF c.err = "ok" THEN "test" ELSE "error"
    /\ UNCHANGED <<last, param, calls>>

\* mock_set[name] in the test body.
HttpxLookupByName(name) ==
    /\ pc = "test"
    /\ last' = [op |-> "getitem", name |-> name,
                err |-> RequestsMockSet_getitem(mock_set, name).err,
                value |-> RequestsMockSet_getitem(mock_set, name).value]
    /\ UNCHANGED <<heap, param, result, pc, backend, mock_set, calls>>

NextHttpx ==
    \/ SetupHttpxMocks
    \/ \E name \in LookupKeys : HttpxLookupByName(name)

SpecHttpx == InitHttpx /\ [][NextHttpx]_vars

(***************************************************************************)
(* Properties of the json property                                         *)
(***************************************************************************)
\* The default body a subtype was declared with (None when it declares none).
DeclaredDefault(d) ==
    IF ClassAttrs(d.cls).default_json = None
    THEN None
    ELSE DictV(DeclaredHeap[ClassAttrs(d.cls).default_json.s])

\* What a read of d.json yields in heap h (the value at the time of return).
JsonValue(d, h) == Deref(json(d, h).ret, json(d, h).heap)

\* C1: a read of json leaves every subtype's class-level default_json as it
\* was; in particular a read on an instance built with a partial_json
\* overlay does not change the default body of its subtype.
C1_ReadLeavesDefaultJson == [][last'.op = "json" => heap' = heap]_vars

\* C2: the dict returned for an instance with neither json nor partial_json
\* is a copy: when the caller writes to it, every later read on an instance
\* with neither json nor partial_json returns what it returned before.
C2_ReturnedDefaultIsCopy ==
    [][(/\ last.op = "json"
        /\ last'.op = "setitem"
        /\ last.d._json = None
        /\ ~Truthy(last.d._partial_json))
       => \A d \in Instances :
            (d._json = None /\ ~Truthy(d._partial_json))
                => JsonValue(d, heap') = JsonValue(d, heap)]_vars

\* C3: json returns the explicit json when one was given; otherwise, with a
\* partial_json overlay on a subtype that declares a default body, the
\* declared default body merged with the overlay (overlay keys win, the
\* other default keys keep their declared value); otherwise the declared
\* default body.
C3_JsonPrecedence ==
    (last.op = "json") =>
        LET d == last.d IN
        IF d._json # None
        THEN last.err = "ok" /\ last.value = d._json
        ELSE IF Truthy(d._partial_json)
        THEN DeclaredDefault(d) # None =>
                /\ last.err = "ok"
                /\ last.value =
                     DictV(Update(DeclaredDefault(d).items,
                                  d._partial_json.items))
        ELSE last.err = "ok" /\ last.value = DeclaredDefault(d)

(***************************************************************************)
(* Properties of group_by_url.  They are stated over the input param and   *)
(* the outcome result once the call has been made, without reference to    *)
(* the loops above.                                                        *)
(***************************************************************************)
Returned == pc = "done" /\ result.err = "ok"

\* Every element is a definition or a list of definitions.
ValidInput(elems) ==
    \A i \in 1..Len(elems) :
        \/ elems[i].t = "def"
        \/ /\ elems[i].t = "list"
           /\ \A j \in 1..Len(elems[i].items) : elems[i].items[j].t = "def"

\* The definitions of an input, nested lists replaced by their elements.
RECURSIVE Definitions(_)
Definitions(elems) ==
    IF elems = <<>>
    THEN <<>>
    ELSE LET x == Head(elems) IN
         (CASE x.t = "def" -> <<x.d>>
            [] x.t = "list" -> Definitions(x.items)
            [] OTHER -> <<>>) \o Definitions(Tail(elems))

\* The (url, method) pair of a definition, as given on the definition.
KeyOf(d) == <<d.url, d.method>>

KeySet(defs) == {KeyOf(defs[i]) : i \in 1..Len(defs)}

\* The index of the first definition with pair k.
FirstIndex(defs, k) ==
    CHOOSE i \in 1..Len(defs) :
        KeyOf(defs[i]) = k /\ \A j \in 1..(i - 1) : KeyOf(defs[j]) # k

\* The rank of pair k among the pairs, ordered by their first definition.
GroupIndex(defs, k) ==
    Cardinality({KeyOf(defs[j]) : j \in 1..FirstIndex(defs, k)})

\* The rank of definition i among the definitions with its pair.
PosInGroup(defs, i) ==
    Cardinality({j \in 1..i : KeyOf(defs[j]) = KeyOf(defs[i])})

\* The body a definition resolves to in heap h.
BodyOf(d, h) ==
    IF d._json # None
    THEN d._json
    ELSE IF ClassAttrs(d.cls).default_json = None
    THEN None
    ELSE DictV(h[ClassAttrs(d.cls).default_json.s])

\* The payload of a definition: the exception alone when one is set, else
\* the values among text, status_code and json that are not None, the body
\* being what it is in heap h.
PayloadOf(d, h) ==
    IF Truthy(exc(d))
    THEN "exc" :> exc(d)
    ELSE LET full == [text |-> text(d), status_code |-> status_code(d),
                      json |-> BodyOf(d, h)]
         IN [k \in {f \in DOMAIN full : full[f] # None} |-> full[k]]

RECURSIVE PayloadsOfKey(_, _, _)
PayloadsOfKey(defs, k, h) ==
    IF defs = <<>>
    THEN <<>>
    ELSE (IF KeyOf(Head(defs)) = k THEN <<PayloadOf(Head(defs), h)>> ELSE <<>>)
            \o PayloadsOfKey(Tail(defs), k, h)

\* The payload the output holds for definition i of the input.
PayloadAt(defs, i) ==
    result.output[GroupIndex(defs, KeyOf(defs[i]))]
        .responses[PosInGroup(defs, i)]

\* All payloads of the output.
AllPayloads ==
    UNION {{result.output[g].responses[n] :
                n \in 1..Len(result.output[g].responses)} :
            g \in 1..Len(result.output)}

\* C4: a definition whose resolved exception is set yields the payload
\* {exc: that exception} and nothing else, whatever status_code, json,
\* partial_json or text it carries.
C4_ExceptionPayloadExclusive ==
    Returned =>
        LET defs == Definitions(param) IN
        \A i \in 1..Len(defs) :
            Truthy(exc(defs[i])) =>
                PayloadAt(defs, i) = ("exc" :> exc(defs[i]))

\* A definition with an exception that also carries status_code, json and
\* text has been grouped.
C4_Witness ==
    /\ Returned
    /\ \E i \in 1..Len(Definitions(param)) :
          LET d == Definitions(param)[i] IN
          /\ Truthy(exc(d))
          /\ d._status_code # None /\ d._json # None /\ d._text # None

\* C5: the record of a (url, method) pair holds the payloads of the
\* definitions with that pair in the order of the input, whatever other
\* definitions stand between them.
C5_OrderWithinGroup ==
    Returned =>
        LET defs == Definitions(param) IN
        \A k \in KeySet(defs) :
            result.output[GroupIndex(defs, k)].responses
                = PayloadsOfKey(defs, k, result.heap)

\* Two definitions of one pair with different payloads, a definition of
\* another pair between them.
C5_Witness ==
    /\ Returned
    /\ LET defs == Definitions(param) IN
       \E i, j, l \in 1..Len(defs) :
          /\ i < j /\ j < l
          /\ KeyOf(defs[i]) = KeyOf(defs[l])
          /\ KeyOf(defs[j]) # KeyOf(defs[i])
          /\ PayloadOf(defs[i], result.heap) # PayloadOf(defs[l], result.heap)

\* C6: the records stand in the order in which their (url, method) pairs
\* first occur in the input, one record per pair, with the method
\* upper-cased.
C6_FirstSeenOrder ==
    Returned =>
        LET defs == Definitions(param) IN
        /\ Len(result.output) = Cardinality(KeySet(defs))
        /\ \A k \in KeySet(defs) :
              /\ result.output[GroupIndex(defs, k)].url = k[1]
              /\ result.output[GroupIndex(defs, k)].method
                    = StrV(Upper(k[2].s))

\* /push is seen first and /commit second (the reverse of sorted order), and
\* /push occurs again after /commit.
C6_Witness ==
    /\ Returned
    /\ Len(result.output) = 2
    /\ result.output[1].url = StrV("/push")
    /\ result.output[2].url = StrV("/commit")
    /\ LET defs == Definitions(param) IN
       /\ Len(defs) >= 3
       /\ defs[Len(defs)].url = StrV("/push")

\* C7: no two records of the output have the same url and (upper-cased)
\* method.
C7_NoDuplicateRecords ==
    Returned =>
        \A i, j \in 1..Len(result.output) :
            (/\ result.output[i].url = result.output[j].url
             /\ result.output[i].method = result.output[j].method) => i = j

\* C8: on an input of definitions and lists of definitions the outcome is
\* the outcome on the flat list of its definitions.
C8_NestingTransparent ==
    (pc = "done" /\ ValidInput(param)) =>
        result = group_by_url([i \in 1..Len(Definitions(param)) |->
                                  DefElem(Definitions(param)[i])],
                              DeclaredHeap)

\* A nested list of two definitions followed by a definition was grouped
\* into more than one record.
C8_Witness ==
    /\ Returned
    /\ Len(result.output) >= 2
    /\ \E i \in 1..Len(param) :
          /\ param[i].t = "list"
          /\ Len(param[i].items) >= 2
          /\ i < Len(param)

\* An element is neither a definition nor a list of definitions.
HasUnsupported(elems) == ~ValidInput(elems)

\* C9: whenever an element of the input, at the top level or in a nested
\* list, is neither a definition nor a list of definitions, the call fails
\* with a ValueError naming the type of that element and returns nothing.
C9_UnsupportedRaisesValueError ==
    (pc = "done" /\ HasUnsupported(param)) =>
        /\ result.err = "ValueError"
        /\ result.type \in {"str", "list"}
        /\ result.output = <<>>

\* The kinds of content a payload carries.
Kinds(p) ==
    {kind \in {"text", "body", "exc"} :
        \/ kind = "text" /\ "text" \in DOMAIN p
        \/ kind = "body" /\ DOMAIN p \cap {"status_code", "json"} # {}
        \/ kind = "exc" /\ "exc" \in DOMAIN p}

\* C10 as claimed: no key of a payload maps to None and a payload carries
\* one kind of content only.
C10_OneKindOnly ==
    Returned =>
        \A p \in AllPayloads :
            /\ \A k \in DOMAIN p : p[k] # None
            /\ Cardinality(Kinds(p)) <= 1

\* C10 as amended: no key of a payload maps to None, its keys are among
\* text, status_code, json and exc, and a payload that carries exc carries
\* nothing else.
C10_SparsePayloads ==
    Returned =>
        \A p \in AllPayloads :
            /\ \A k \in DOMAIN p : p[k] # None
            /\ DOMAIN p \subseteq {"text", "status_code", "json", "exc"}
            /\ "exc" \in DOMAIN p => DOMAIN p = {"exc"}

\* The output holds a payload with text, status_code and json, a payload
\* with exc alone and a payload from which the None text was dropped.
C10_Witness ==
    /\ Returned
    /\ \E p \in AllPayloads : DOMAIN p = {"text", "status_code", "json"}
    /\ \E p \in AllPayloads : DOMAIN p = {"exc"}
    /\ \E p \in AllPayloads : DOMAIN p = {"status_code", "json"}

(***************************************************************************)
(* Properties of the declaration of a subtype                              *)
(***************************************************************************)
Declared == last.op = "declare"

\* The value of a checked attribute is none or of a type the attribute allows.
Allowed(attr, v) ==
    \/ v = None
    \/ attr = "url" /\ v.tag \in {"str", "pattern"}
    \/ attr \in {"method", "endpoint_name", "default_text"} /\ v.tag = "str"
    \/ attr = "default_status_code" /\ v.tag \in {"int", "bool"}
    \/ attr = "default_json" /\ v.tag = "dict"
    \/ attr = "default_exc" /\ v.tag \in {"exc_type", "exc_instance"}

TypeCheckedAttributes ==
    {"url", "method", "endpoint_name", "default_status_code", "default_text"}

\* The types a message names for an attribute.
NamedTypes(attr) ==
    CASE attr = "url" -> <<"str", "Pattern">>
      [] attr \in {"method", "endpoint_name"} -> <<"str">>
      [] attr = "default_status_code" -> <<"int", "None">>
      [] attr = "default_text" -> <<"str", "None">>
      [] attr = "default_json" -> <<"dict", "None">>

\* C11: a declaration with a wrong type for url, method, endpoint_name,
\* default_status_code or default_text fails with a TypeError that names one
\* of the wrongly typed attributes, the subtype, the expected types, the
\* actual type and the value; a declaration whose attributes are all none or
\* of an allowed type succeeds.
C11_DeclarationTypeChecked ==
    Declared =>
        /\ (\E a \in TypeCheckedAttributes : ~Allowed(a, last.attrs[a])) =>
              /\ last.outcome.err = "TypeError"
              /\ last.outcome.attr \in TypeCheckedAttributes
              /\ ~Allowed(last.outcome.attr, last.attrs[last.outcome.attr])
              /\ last.outcome.cls = last.cls
              /\ last.outcome.expected = NamedTypes(last.outcome.attr)
              /\ last.outcome.value = last.attrs[last.outcome.attr]
              /\ last.outcome.got =
                    (CASE last.outcome.value.tag = "pattern" -> "Pattern"
                       [] last.outcome.value.tag \in {"exc_type", "class"}
                            -> "type"
                       [] OTHER -> last.outcome.value.tag)
        /\ (\A a \in DOMAIN last.attrs : Allowed(a, last.attrs[a])) =>
              last.outcome.err = "ok"

\* method = 200 alone was rejected, and a declaration that sets every
\* attribute to an allowed value was accepted.
C11_Witness ==
    /\ Declared
    /\ \/ /\ last.attrs.method = IntV(200)
          /\ \A a \in TypeCheckedAttributes \ {"method"} :
                Allowed(a, last.attrs[a])
          /\ last.outcome.err = "TypeError"
          /\ last.outcome.got = "int"

\* C12: a declaration whose default_json is neither a dict nor none fails
\* with a TypeError naming default_json and the expected types dict, None.
C12_DefaultJsonTypeChecked ==
    (/\ Declared
     /\ \A a \in DOMAIN last.attrs \ {"default_json"} :
            Allowed(a, last.attrs[a])
     /\ ~Allowed("default_json", last.attrs.default_json))
    => /\ last.outcome.err = "TypeError"
       /\ last.outcome.attr = "default_json"
       /\ last.outcome.expected = NamedTypes("default_json")

\* C13: when the type-checked attributes are in order, the declaration
\* succeeds exactly when default_exc is none, an exception instance or an
\* exception type; otherwise it fails with a TypeError naming default_exc
\* and the subtype.
C13_DefaultExcChecked ==
    (Declared /\ \A a \in TypeCheckedAttributes : Allowed(a, last.attrs[a]))
    => /\ last.outcome.err = "ok" <=>
            Allowed("default_exc", last.attrs.default_exc)
       /\ last.outcome.err # "ok" =>
            /\ last.outcome.err = "TypeError"
            /\ last.outcome.attr = "default_exc"
            /\ last.outcome.cls = last.cls
            /\ last.outcome.value = last.attrs.default_exc

\* A class that is no exception class was rejected as default_exc.
C13_Witness ==
    /\ Declared
    /\ last.attrs.default_exc = ClassV("dict")
    /\ last.outcome.err = "TypeError"
    /\ last.outcome.attr = "default_exc"

(***************************************************************************)
(* Properties of an instance                                               *)
(***************************************************************************)
\* The default_status_code the class statements give a class.
DeclaredStatusCode(c) ==
    IF c \in {"Commit", "Push", "SecondPush", "ForcePush", "ForcePushSubclass"}
    THEN IntV(200)
    ELSE None

\* The endpoint_name the class statements give a class, own or inherited.
DeclaredEndpointName(c) ==
    IF c \in {"ForcePush", "ForcePushSubclass"}
    THEN StrV("ForcePush")
    ELSE None

\* C14: status_code is the override given to the constructor whenever one
\* was given, 0 included, and the class default_status_code (none when the
\* class has no default) only when no override was given.
C14_StatusCodeOverride ==
    (last.op = "status_code") =>
        last.value = (IF last.kw.status_code # None
                      THEN last.kw.status_code
                      ELSE DeclaredStatusCode(last.cls))

Supplied == Definitions(param)

\* The positions of the supplied definitions named n.
Named(n) == {i \in 1..Len(Supplied) : Supplied[i].endpoint_name = n}

\* C16: `name in mock_set` is true exactly when a supplied definition has
\* that endpoint_name.
C16_MembershipByName ==
    (last.op = "contains") => (last.value = (Named(last.name) # {}))

\* The handles registered for the (url, method) groups of the definitions
\* that key, an endpoint name or a url, designates.
HandlesOf(key) ==
    {Matcher(h) : h \in
        {h \in 1..Len(backend) :
            \E i \in 1..Len(Supplied) :
                /\ Supplied[i].endpoint_name = key \/ Supplied[i].url = key
                /\ backend[h].url = Supplied[i].url
                /\ backend[h].method = StrV(Upper(Supplied[i].method.s))}}

\* C17: get_matcher, called with an endpoint name or a url, returns the
\* handle registered for that endpoint's (url, method) group, and None only
\* when no such group was registered.
C17_GetMatcherByNameOrUrl ==
    (last.op = "get_matcher") =>
        (IF HandlesOf(last.name) = {}
         THEN last.value = None
         ELSE last.value \in HandlesOf(last.name))

\* C18: lookup by endpoint name returns a definition supplied under that
\* name, and raises KeyError for a name no supplied definition carries; it
\* never returns None.
C18_LookupByName ==
    (last.op = "getitem") =>
        (IF Named(last.name) = {}
         THEN last.err = "KeyError"
         ELSE /\ last.err = "ok"
              /\ \E i \in Named(last.name) : last.value = Supplied[i])

C18_Witness ==
    /\ last.op = "getitem"
    /\ last.err = "KeyError"
    /\ Len(Supplied) >= 2
    /\ last.name = StrV("SecondPush")

\* C19 as stated: iteration yields the supplied definitions in input order,
\* also when two of them share an endpoint_name.
C19_IterationEqualsInput ==
    (last.op = "iter") => (last.value = Supplied)

\* The positions at which an endpoint_name occurs for the first time.
FirstOccurrences ==
    {i \in 1..Len(Supplied) :
        \A j \in 1..(i - 1) :
            Supplied[j].endpoint_name # Supplied[i].endpoint_name}

\* The k-th endpoint_name in order of first occurrence.
KthName(k) ==
    Supplied[CHOOSE i \in FirstOccurrences :
                Cardinality({j \in FirstOccurrences : j <= i}) = k].endpoint_name

\* The last supplied definition named n.
LastNamed(n) ==
    Supplied[CHOOSE i \in Named(n) : \A j \in Named(n) : j <= i]

\* C19 amended: iteration yields one definition per distinct endpoint_name,
\* the names in order of first occurrence and each name's definition the
\* last one supplied under it; it equals the input when the names are
\* pairwise distinct.
C19_IterationByDistinctName ==
    (last.op = "iter") =>
        /\ Len(last.value) = Cardinality(FirstOccurrences)
        /\ \A k \in 1..Len(last.value) : last.value[k] = LastNamed(KthName(k))
        /\ (Cardinality(FirstOccurrences) = Len(Supplied)) =>
                (last.value = Supplied)

C19_Witness ==
    /\ last.op = "iter"
    /\ Len(Supplied) = 3
    /\ Len(last.value) = 2
    /\ last.value[1] # Supplied[1]
    /\ last.value[1].endpoint_name = Supplied[1].endpoint_name

\* The requests sent to the endpoint (url, method), in order.
CallsTo(url, method) ==
    SelectSeq(calls, LAMBDA c : c.url = url /\ c.method = method)

\* The fixture has run on definitions that share one (url, method).
OneGroup ==
    /\ pc = "test"
    /\ Supplied # <<>>
    /\ Cardinality(KeySet(Supplied)) = 1

\* C20: when the supplied definitions share one (url, method), the k-th
\* call to that endpoint receives the payload of the k-th definition, and
\* the matcher registered for the url reports as many calls as were made.
C20_ServedInDeclarationOrder ==
    OneGroup =>
        LET url == Supplied[1].url
            mine == CallsTo(url, Supplied[1].method)
        IN /\ \A k \in 1..Len(mine) :
                (k <= Len(Supplied)) =>
                    (mine[k].response = PayloadOf(Supplied[k], heap))
           /\ get_matcher(mock_set, url) # None
           /\ backend[get_matcher(mock_set, url).id].call_count = Len(mine)

C20_Witness ==
    /\ OneGroup
    /\ Supplied = <<MockAPIResponse_init("Push", NoArgs),
                    MockAPIResponse_init("SecondPush", NoArgs)>>
    /\ Len(CallsTo(StrV("/push"), StrV("POST"))) = 2
    /\ calls[2].response # calls[1].response
    /\ backend[get_matcher(mock_set, StrV("/push")).id].call_count = 2

(***************************************************************************)
(* Properties of the fixture setup                                         *)
(***************************************************************************)
\* The fixture has run, to its yield or to an exception.
SetUp == pc \in {"test", "error"}

\* C21: on an input nested one level the fixture completes without error,
\* and every definition, those inside a nested list included, can be looked
\* up in the yielded result set by its endpoint name.
C21_NestedInputAccepted ==
    (SetUp /\ ValidInput(param)) =>
        /\ result.err = "ok"
        /\ \A i \in 1..Len(Supplied) :
              RequestsMockSet_getitem(mock_set, Supplied[i].endpoint_name).err
                  = "ok"

(***************************************************************************)
(* Properties of construction and of the order of validation               *)
(***************************************************************************)
\* C22: constructing an instance raises no error, also with override
\* arguments of a type the class-level check rejects, and however many
\* instances were constructed before; the overrides are stored as given.
C22_NoValidationAtConstruction ==
    (last.op = "init") =>
        /\ last.err = "ok"
        /\ (last.kw.method # None) => (last.d.method = last.kw.method)
        /\ last.d._status_code = last.kw.status_code

C22_Witness ==
    /\ last.op = "init"
    /\ last.cls = "Push"
    /\ last.kw.method = IntV(200)
    /\ last.kw.status_code = StrV("x")
    /\ attribute_violation("method", last.kw.method)
    /\ attribute_violation("default_status_code", last.kw.status_code)
    /\ last.err = "ok"

\* The order in which a declaration's attributes are checked.
CheckOrder ==
    <<"url", "method", "endpoint_name", "default_status_code", "default_text",
      "default_exc">>

\* The positions in CheckOrder of the attributes a declaration violates.
Violations(attrs) ==
    {i \in 1..Len(CheckOrder) : ~Allowed(CheckOrder[i], attrs[CheckOrder[i]])}

\* C23: a declaration that violates one or more of the rules fails with the
\* TypeError of the first violated attribute in the order url, method,
\* endpoint_name, default_status_code, default_text, default_exc; default_exc
\* is reported only when every attribute before it is valid.
C23_FirstViolationReported ==
    Declared =>
        IF Violations(last.attrs) = {}
        THEN last.outcome.err = "ok"
        ELSE /\ last.outcome.err = "TypeError"
             /\ \E i \in Violations(last.attrs) :
                  /\ \A j \in Violations(last.attrs) : i <= j
                  /\ last.outcome.attr = CheckOrder[i]
                  /\ last.outcome.value = last.attrs[CheckOrder[i]]

C23_Witness ==
    /\ Declared
    /\ Violations(last.attrs) = {2, 5, 6}
    /\ last.outcome.err = "TypeError"
    /\ last.outcome.attr = "method"

(***************************************************************************)
(* Properties of the registrations                                         *)
(***************************************************************************)
\* The backend holds one matcher per (url, method) pair of the supplied
\* definitions, in the order the pairs are first seen, each with the url, the
\* upper-cased method and the pair's payloads in declaration order.
RegisteredPerRecord ==
    /\ Len(backend) = Cardinality(KeySet(Supplied))
    /\ \A k \in KeySet(Supplied) :
          /\ backend[GroupIndex(Supplied, k)].url = k[1]
          /\ backend[GroupIndex(Supplied, k)].method = StrV(Upper(k[2].s))
          /\ backend[GroupIndex(Supplied, k)].responses
                = PayloadsOfKey(Supplied, k, heap)

\* The handles the result set holds.
HandlesKept ==
    {mock_set.matchers[i].value : i \in 1..Len(mock_set.matchers)}

\* C24: the fixture registers each record of group_by_url once, in order,
\* and every handle a registration returned can be got from the result set
\* afterwards, also when two registered groups share a url.
C24_EveryHandleKept ==
    (pc = "test") =>
        /\ RegisteredPerRecord
        /\ \A h \in 1..Len(backend) : Matcher(h) \in HandlesKept

\* The body the claims give a definition: the explicit json, else the
\* declared default body overlaid with partial_json, else the declared
\* default body.
ExpectedJson(d) ==
    IF d._json # None
    THEN d._json
    ELSE IF Truthy(d._partial_json) /\ DeclaredDefault(d) # None
    THEN DictV(Update(DeclaredDefault(d).items, d._partial_json.items))
    ELSE DeclaredDefault(d)

\* The registration the httpx fixture owes a definition.
ExpectedRegistration(d) ==
    IF Truthy(exc(d))
    THEN [kind |-> "exception", url |-> d.url, method |-> d.method,
          exception |-> exc(d)]
    ELSE [kind |-> "response", url |-> d.url, method |-> d.method,
          json |-> ExpectedJson(d), status_code |-> status_code(d)]

\* C25: setup_httpx_mocks registers the definitions of a valid input one by
\* one in input order, a definition with an exception through add_exception
\* and any other through add_response with its url, method, json and
\* status_code, as many registrations as definitions; an element that is not
\* a definition aborts the setup with a ValueError.
C25_HttpxRegistersEachDefinition ==
    SetUp =>
        IF ValidInput(param)
        THEN backend = [i \in 1..Len(Supplied) |->
                            ExpectedRegistration(Supplied[i])]
        ELSE result.err = "ValueError"

(***************************************************************************)
(* Further properties of group_by_url                                      *)
(***************************************************************************)
\* The number of payloads of a list of records.
RECURSIVE TotalPayloads(_)
TotalPayloads(output) ==
    IF output = <<>>
    THEN 0
    ELSE Len(Head(output).responses) + TotalPayloads(Tail(output))

\* The places (record, position) of the output.
Places ==
    UNION {{<<g, n>> : n \in 1..Len(result.output[g].responses)} :
            g \in 1..Len(result.output)}

\* The place of definition i of the input.
PlaceOf(defs, i) == <<GroupIndex(defs, KeyOf(defs[i])), PosInGroup(defs, i)>>

\* C26: when group_by_url returns, the output holds as many payloads as the
\* flattened input holds definitions, no record is empty, and the
\* definitions and the places of the output correspond one to one, each
\* place holding the payload of its definition.
C26_NoLossNoDuplication ==
    Returned =>
        LET defs == Definitions(param) IN
        /\ TotalPayloads(result.output) = Len(defs)
        /\ \A g \in 1..Len(result.output) :
              Len(result.output[g].responses) >= 1
        /\ {PlaceOf(defs, i) : i \in 1..Len(defs)} = Places
        /\ \A i, j \in 1..Len(defs) :
              (PlaceOf(defs, i) = PlaceOf(defs, j)) => (i = j)
        /\ \A i \in 1..Len(defs) :
              PayloadAt(defs, i) = PayloadOf(defs[i], result.heap)

C26_Witness ==
    /\ Returned
    /\ \E i \in 1..Len(param) : param[i].t = "list"
    /\ Len(Definitions(param)) = 3
    /\ Len(result.output) = 2
    /\ \E g \in 1..Len(result.output) : Len(result.output[g].responses) = 2

(***************************************************************************)
(* Further properties of the result set                                    *)
(***************************************************************************)
\* C27: the result set keeps one entry per endpoint_name: its length is the
\* number of distinct names supplied, lookup by a name returns the last
\* definition supplied under it, and iteration yields no definition but the
\* last of its name.
C27_OneEntryPerName ==
    /\ (last.op = "len") =>
          last.value =
              Cardinality({Supplied[i].endpoint_name : i \in 1..Len(Supplied)})
    /\ (last.op = "getitem" /\ last.err = "ok") =>
          last.value = LastNamed(last.name)
    /\ (last.op = "iter") =>
          \A k \in 1..Len(last.value) :
              last.value[k] = LastNamed(last.value[k].endpoint_name)

C27_Witness ==
    /\ last.op = "getitem"
    /\ last.err = "ok"
    /\ Cardinality(Named(last.name)) >= 2
    /\ \E i \in Named(last.name) : Supplied[i] # last.value
    /\ last.value = Supplied[Len(Supplied)]

\* A definition of the input has no method: none given, none on its class.
HasNoMethod(elems) ==
    \E i \in 1..Len(Definitions(elems)) : Definitions(elems)[i].method = None

\* The input with the method GET on the definitions that have none.
RECURSIVE WithMethod(_)
WithMethod(elems) ==
    [i \in 1..Len(elems) |->
        CASE elems[i].t = "def" ->
                DefElem([elems[i].d EXCEPT
                            !.method = IF @ = None THEN StrV("GET") ELSE @])
          [] elems[i].t = "list" -> ListElem(WithMethod(elems[i].items))
          [] OTHER -> elems[i]]

====
